---- MODULE Spec2Model ----
(***************************************************************************)
(* SamCore: the message-routing hub (src/src/Server.js, third Server       *)
(* class, lines 409-644; its built-in API in src/src/index.js, lines       *)
(* 1-239; the settings store src/src/EditJsonFile.js) and the node client  *)
(* library (src/src/Client.js, first Client class, lines 1-311).           *)
(*                                                                         *)
(* Names (node names, api names, routing keys, settings paths) are         *)
(* '.'-joined strings in the source.  A name is modelled as the sequence   *)
(* of its '.'-free segments, so that joining with '.' is concatenation     *)
(* and two keys are equal exactly when the joined strings are equal.       *)
(***************************************************************************)
EXTENDS Integers, Sequences, FiniteSets, TLC

VARIABLES
  now,        \* the clock read by Date.now()
  calls,      \* callApi invocations so far: [conn, packet, cb]
  pending,    \* indices of calls whose one-shot listener is still registered
  toHub,      \* per connection: messages emitted by the node, not yet handled by the hub
  toNode,     \* per connection: messages emitted by the hub, not yet handled by the node
  fired,      \* callApi callbacks that ran: sequence of [id, packet]
  serving,    \* per connection: requests handed to an api handler, not yet answered
  seen,       \* per connection: messages the node's socket has received
  routed,     \* packets the hub forwarded through send
  replies,    \* number of Client.return emissions so far
  pc,         \* per connection: where Client.run is
  bound,      \* per connection: whether loadCallbacks has bound the api handlers
  rawSent,    \* number of messages written to the hub's socket by other processes
  sockets,    \* the hub's registry this.sockets: pairs <<name, connection>>
  greenLight, \* the hub's this.greenLight
  hubPc,      \* the hub process: "off", "constructed", "serving" or "crashed"
  db,         \* the settings store's this.data
  file,       \* the content of SamCoreSettings.json
  lastSet,    \* per sender: the settings of its last setSettings that succeeded
  timers,     \* calls whose _promise timer is armed
  settled,    \* _promise outcomes: [id, by], by "reply" or "timer"
  invoked,    \* per connection: the requests its api handlers took, in order
  nodes,      \* names of the child processes the hub spawned
  thrown,     \* the error the last store operation or the start threw, "" if none
  argsIn,     \* what Packet.checkArgs is called with: [argsNames, packet]
  returned,   \* the values Packet.checkArgs returned
  errors      \* the messages Packet.checkArgs passed to parent.returnError

routeVars == <<now, calls, pending, toHub, toNode, fired, serving, seen, routed, replies>>
runVars   == <<pc, bound, rawSent>>
storeVars == <<db, file, lastSet>>
hubVars   == <<sockets, greenLight, hubPc, storeVars>>

promiseVars == <<timers, settled>>
checkVars == <<argsIn, returned, errors>>
extVars   == <<promiseVars, invoked, nodes, thrown, checkVars>>

vars == <<routeVars, runVars, hubVars, extVars>>

(***************************************************************************)
(* Bounds of the model.                                                    *)
(***************************************************************************)
MaxNow     == 2
MaxCalls   == 2
MaxReplies == 2
MaxRaw     == 2
MaxRequests == 3

(***************************************************************************)
(* Program constants.                                                      *)
(***************************************************************************)
serverName == <<"samcore">>
Null       == 0

\* Packet.checkArgs has not been called
NoCheck == [argsNames |-> <<>>]

\* connections of nodes built on the Client class, and their node names
Conns    == {"c1", "c2"}
nodeName == ("c1" :> <<"alice">>) @@ ("c2" :> <<"bob">>)

\* connections of processes that speak to the hub's socket directly
Raws  == {"x1", "x2"}
Socks == Conns \cup Raws

\* api names registered with addApiCall by every node of the model
ApiCalls == {<<"slow">>}

\* what callApi is invoked with: a registered node, an unregistered node, and
\* an api name that itself contains dots
Targets ==
  { [receiver |-> <<"bob">>,   apiCall |-> <<"slow">>],
    [receiver |-> <<"carol">>, apiCall |-> <<"slow">>],
    [receiver |-> <<"alice">>, apiCall |-> <<"bob", "slow", "1">>] }

\* `${returnCode}`: the decimal text of a return code
ToStr(n) == <<"0", "1", "2", "3", "4", "5", "6", "7", "8", "9">>[n + 1]

Msg(k, p) == [key |-> k, packet |-> p]

\* packet.field = value: the packet with the field set, added when missing
With(p, field, value) ==
  [f \in DOMAIN p \cup {field} |-> IF f = field THEN value ELSE p[f]]

(***************************************************************************)
(* Client library                                                          *)
(***************************************************************************)

\* the key callApi registers its one-time callback on
CallbackKey(p) ==
  p.sender \o p.receiver \o p.apiCall \o <<ToStr(p.returnCode)>>

\* the key callApi emits the packet under
EmitKey(p) ==
  IF p.receiver = serverName THEN serverName \o p.apiCall
                             ELSE serverName \o <<"send">>

\* the packet callApi builds
CallPacket(c, r, a, d, cb) ==
  [ sender     |-> nodeName[c],
    receiver   |-> r,
    apiCall    |-> a,
    returnCode |-> IF cb THEN now ELSE Null,
    data       |-> d ]

\* keys of the handlers bound by loadCallbacks
ApiKeys(c) == { nodeName[c] \o a : a \in ApiCalls }

\* keys registered with addHook: bob hooks the api call slow of alice
HookKeys == ("c1" :> {}) @@ ("c2" :> {<<"alice", "slow">>})

(***************************************************************************)
(* Hub                                                                     *)
(***************************************************************************)

\* Server.return: the key a reply is broadcast under
ReturnCall(p) ==
  p.receiver \o p.apiCall \o <<"return">> \o p.sender
    \o (IF p.returnCode # Null THEN <<ToStr(p.returnCode)>> ELSE <<>>)

\* Server.send: the key a request is broadcast under
SendCall(p) == p.receiver \o p.apiCall

\* the socket is connected to the hub
Connected(c) == pc[c] \in {"onInit", "running"}

BroadcastFront(q, m) == [c \in Socks |-> IF Connected(c) THEN <<m>> \o q[c] ELSE q[c]]

\* ipc.server.broadcast: the message goes to every connected socket
Broadcast(q, m) == [c \in Socks |-> IF Connected(c) THEN Append(q[c], m) ELSE q[c]]

(***************************************************************************)
(* Settings store (EditJsonFile)                                           *)
(*                                                                         *)
(* A JSON value is the set of its leaves, each a pair <<path, text>>: a    *)
(* scalar is one leaf at the empty path, an object holds the leaves of its *)
(* members behind their keys, an empty object is the single leaf "{}" at   *)
(* the empty path.  undefined is the empty set.                            *)
(***************************************************************************)
Undefined   == {}
Scalar(t)   == { <<(<<>>), t>> }
EmptyObject == Scalar("{}")

IsPrefix(p, q) == Len(p) <= Len(q) /\ SubSeq(q, 1, Len(p)) = p

\* the value v placed at path
At(path, v) == { <<path \o e[1], e[2]>> : e \in v }

\* find-value, as EditJsonFile.get calls it: the value at the '.'-split path,
\* undefined when a segment is missing
FindValue(doc, path) ==
  { <<SubSeq(e[1], Len(path) + 1, Len(e[1])), e[2]>> :
      e \in { d \in doc : IsPrefix(path, d[1]) } }

SetValueKeepingRest(doc, path, v) == { e \in doc : e[1] # path } \cup At(path, v)

\* set-value, as EditJsonFile.set calls it (no merge option): every segment
\* of the '.'-split path but the last is made an object unless it is one,
\* the last is assigned the value
SetValue(doc, path, v) ==
  { e \in doc : ~IsPrefix(path, e[1]) /\ ~IsPrefix(e[1], path) } \cup At(path, v)

\* the path without its last segment
Front(q) == SubSeq(q, 1, Len(q) - 1)

\* JSON.stringify(this.data): keys with an undefined value are left out
Stringify(doc) ==
  LET kept  == { e \in doc : e[2] # "undefined" }
      holes == { Front(e[1]) : e \in { d \in doc \ kept : Len(d[1]) >= 1 } }
  IN kept \cup { <<h, "{}">> : h \in { g \in holes : ~\E e \in kept : IsPrefix(g, e[1]) } }

\* Helpers.defaultPackage
defaultPackage(version, installed, persistent, mandatory, link) ==
  At(<<"version">>, Scalar(version)) \cup At(<<"development">>, Scalar("false"))
    \cup At(<<"installed">>, Scalar(installed)) \cup At(<<"enabled">>, Scalar("true"))
    \cup At(<<"persistent">>, Scalar(persistent)) \cup At(<<"mandatory">>, Scalar(mandatory))
    \cup At(<<"link">>, Scalar(link)) \cup At(<<"settings">>, EmptyObject)

\* SamCoreSettings.json when the hub starts: the hub's own package and the
\* package of the node bob
InitDoc ==
  At(<<"packages", "samcore">>,
     defaultPackage("1.0.0", "true", "true", "true", "https://github.com/vindennl48/Sam-SamCore"))
    \cup At(<<"packages", "bob">>, defaultPackage("1.0.0", "true", "false", "false", ""))

\* the senders of settings requests: a node with a package, a node whose
\* name contains a dot, a node without a package
SettingsSenders == { <<"bob">>, <<"bob", "settings">>, <<"alice">> }

\* the settings they send
SettingsValues ==
  { At(<<"theme">>, Scalar("dark")), At(<<"theme">>, Scalar("light")) }

(***************************************************************************)
(* Actions of the routing core                                             *)
(***************************************************************************)

\* Date.now() advances
Tick ==
  /\ now < MaxNow
  /\ now' = now + 1
  /\ UNCHANGED <<calls, pending, toHub, toNode, fired, serving, seen, routed, replies>>
  /\ UNCHANGED <<runVars, hubVars>>
  /\ UNCHANGED extVars

\* Client.callApi(receiver, apiCall, data, callback)
CallApi(c, r, a, cb) ==
  /\ pc[c] \in {"onInit", "running"}
  /\ Len(calls) < MaxCalls
  /\ LET packet == CallPacket(c, r, a, <<ToStr(Len(calls) + 1)>>, cb)
     IN /\ calls' = Append(calls, [conn |-> c, packet |-> packet, cb |-> cb])
        /\ pending' = IF cb THEN pending \cup {Len(calls) + 1} ELSE pending
        /\ toHub' = [toHub EXCEPT ![c] = Append(@, Msg(EmitKey(packet), packet))]
  /\ UNCHANGED <<now, toNode, fired, serving, seen, routed, replies>>
  /\ UNCHANGED <<runVars, hubVars>>
  /\ UNCHANGED extVars

\* the callbacks of the calls in ids, in the order they were registered
RECURSIVE Firings(_, _)
Firings(ids, packet) ==
  IF ids = {} THEN <<>>
  ELSE LET i == CHOOSE x \in ids : \A y \in ids : x <= y
       IN <<[id |-> i, packet |-> packet]>> \o Firings(ids \ {i}, packet)

\* the one-shot listeners of connection c registered on key k
Listening(c, k) ==
  { i \in pending : calls[i].conn = c /\ CallbackKey(calls[i].packet) = k }

\* the node's socket receives one message: every listener registered on its
\* key runs, a one-shot listener is removed, a bound api handler or hook
\* takes the packet
NodeReceive(c) ==
  /\ pc[c] \notin {"closed", "crashed"}
  /\ toNode[c] # <<>>
  /\ LET m == Head(toNode[c])
         ids == Listening(c, m.key)
     IN /\ toNode' = [toNode EXCEPT ![c] = Tail(@)]
        /\ seen' = [seen EXCEPT ![c] = @ \cup {m}]
        /\ fired' = fired \o Firings(ids, m.packet)
        /\ pending' = pending \ ids
        /\ serving' = IF bound[c] /\ m.key \in ApiKeys(c)
                         THEN [serving EXCEPT ![c] = @ \cup {m.packet}]
                         ELSE serving
        /\ invoked' = IF bound[c] /\ m.key \in ApiKeys(c) \cup HookKeys[c]
                         THEN [invoked EXCEPT ![c] = Append(@, m.packet)]
                         ELSE invoked
        /\ settled' = settled \cup { [id |-> i, by |-> "reply"] : i \in ids \cap timers }
        /\ timers' = timers \ ids
  /\ UNCHANGED <<now, calls, toHub, routed, replies>>
  /\ UNCHANGED <<runVars, hubVars, nodes, thrown, checkVars>>

\* Helpers._promise(call, timelimit) around a callApi whose callback is the
\* promise's resolve: the call is made and the timer is armed
CallApiTimed(c, r, a) ==
  /\ pc[c] \in {"onInit", "running"}
  /\ Len(calls) < MaxCalls
  /\ LET packet == CallPacket(c, r, a, <<ToStr(Len(calls) + 1)>>, TRUE)
     IN /\ calls' = Append(calls, [conn |-> c, packet |-> packet, cb |-> TRUE])
        /\ pending' = pending \cup {Len(calls) + 1}
        /\ toHub' = [toHub EXCEPT ![c] = Append(@, Msg(EmitKey(packet), packet))]
        /\ timers' = timers \cup {Len(calls) + 1}
  /\ UNCHANGED <<now, toNode, fired, serving, seen, routed, replies>>
  /\ UNCHANGED <<runVars, hubVars, settled, invoked, nodes, thrown, checkVars>>

\* the timer of _promise fires: the race is won by the timer branch; finally
\* clears the timer and nothing else
TimerFires(i) ==
  /\ i \in timers
  /\ timers' = timers \ {i}
  /\ settled' = settled \cup { [id |-> i, by |-> "timer"] }
  /\ UNCHANGED <<routeVars, runVars, hubVars, invoked, nodes, thrown, checkVars>>

\* what the timer branch of _promise returns
TimeoutValue == [data |-> [status |-> FALSE, errorMessage |-> "API Timeout!"]]

\* an api handler answers with Client.return(packet); a handler may answer
\* the same request again
Reply(c, p, again) ==
  /\ p \in serving[c]
  /\ replies < MaxReplies
  /\ replies' = replies + 1
  /\ toHub' = [toHub EXCEPT ![c] = Append(@, Msg(serverName \o <<"return">>, p))]
  /\ serving' = IF again THEN serving ELSE [serving EXCEPT ![c] = @ \ {p}]
  /\ UNCHANGED <<now, calls, pending, toNode, fired, seen, routed>>
  /\ UNCHANGED <<runVars, hubVars>>
  /\ UNCHANGED extVars

\* the hub's '*' listener, message == `${serverName}.return`
HubReturn(c) ==
  /\ hubPc = "serving"
  /\ toHub[c] # <<>>
  /\ Head(toHub[c]).key = serverName \o <<"return">>
  /\ LET p == Head(toHub[c]).packet
     IN toNode' = Broadcast(toNode, Msg(ReturnCall(p), p))
  /\ toHub' = [toHub EXCEPT ![c] = Tail(@)]
  /\ UNCHANGED <<now, calls, pending, fired, serving, seen, routed, replies>>
  /\ UNCHANGED <<runVars, hubVars>>
  /\ UNCHANGED extVars

HubSendStamping(c) ==
  /\ hubPc = "serving"
  /\ toHub[c] # <<>>
  /\ Head(toHub[c]).key = serverName \o <<"send">>
  /\ LET p == Head(toHub[c]).packet
     IN /\ toNode' = Broadcast(toNode, Msg(SendCall(p), With(p, "status", FALSE)))
        /\ routed' = routed \cup {p}
  /\ toHub' = [toHub EXCEPT ![c] = Tail(@)]
  /\ UNCHANGED <<now, calls, pending, fired, serving, seen, replies>>
  /\ UNCHANGED <<runVars, hubVars>>
  /\ UNCHANGED extVars

\* the hub's '*' listener, message == `${serverName}.send`
HubSend(c) ==
  /\ hubPc = "serving"
  /\ toHub[c] # <<>>
  /\ Head(toHub[c]).key = serverName \o <<"send">>
  /\ LET p == Head(toHub[c]).packet
     IN /\ toNode' = Broadcast(toNode, Msg(SendCall(p), p))
        /\ routed' = routed \cup {p}
  /\ toHub' = [toHub EXCEPT ![c] = Tail(@)]
  /\ UNCHANGED <<now, calls, pending, fired, serving, seen, replies>>
  /\ UNCHANGED <<runVars, hubVars>>
  /\ UNCHANGED extVars

(***************************************************************************)
(* The routing core: every node is connected and has bound its handlers,   *)
(* the hub is serving.  Server.send and Server.return never read           *)
(* this.sockets, so routing does not depend on how the names got           *)
(* registered; start-up and registration are the subject of SpecRun and    *)
(* SpecReg.                                                                *)
(***************************************************************************)
Init ==
  /\ now = 1
  /\ calls = <<>>
  /\ pending = {}
  /\ toHub = [c \in Socks |-> <<>>]
  /\ toNode = [c \in Socks |-> <<>>]
  /\ fired = <<>>
  /\ serving = [c \in Conns |-> {}]
  /\ seen = [c \in Socks |-> {}]
  /\ routed = {}
  /\ replies = 0
  /\ pc = [c \in Socks |-> IF c \in Conns THEN "running" ELSE "idle"]
  /\ bound = [c \in Conns |-> TRUE]
  /\ rawSent = 0
  /\ sockets = { <<nodeName[c], c>> : c \in Conns }
  /\ greenLight = TRUE
  /\ hubPc = "serving"
  /\ db = InitDoc
  /\ file = InitDoc
  /\ lastSet = [n \in SettingsSenders |-> Undefined]
  /\ timers = {}
  /\ settled = {}
  /\ invoked = [c \in Conns |-> <<>>]
  /\ nodes = <<>>
  /\ thrown = ""
  /\ argsIn = NoCheck
  /\ returned = <<>>
  /\ errors = <<>>

Next ==
  \/ Tick
  \/ \E c \in Conns, t \in Targets, cb \in BOOLEAN : CallApi(c, t.receiver, t.apiCall, cb)
  \/ \E c \in Conns, t \in Targets : CallApiTimed(c, t.receiver, t.apiCall)
  \/ \E i \in timers : TimerFires(i)
  \/ \E c \in Conns : NodeReceive(c)
  \/ \E c \in Conns : \E p \in serving[c], again \in BOOLEAN : Reply(c, p, again)
  \/ \E c \in Conns : HubReturn(c)
  \/ \E c \in Conns : HubSend(c)

Spec == Init /\ [][Next]_vars

(***************************************************************************)
(* Start-up: Server.run, Client.run and the hub's built-in handlers        *)
(***************************************************************************)

\* what a node asks for while it starts
RunTargets ==
  { [receiver |-> <<"bob">>,  apiCall |-> <<"slow">>],
    [receiver |-> serverName, apiCall |-> <<"greenLight">>] }

\* names other processes register under
RawNames == {<<"carol">>, <<"dave">>}

\* the return code each of these processes puts in its packets
RawCode == ("x1" :> 1) @@ ("x2" :> 2)

\* a packet in the hub's layout: sender, receiver, apiCall, returnCode, args
RawPacket(x, s, r, a, n) ==
  [ sender |-> s, receiver |-> r, apiCall |-> a, returnCode |-> RawCode[x],
    args |-> [name |-> n] ]

\* what process x, calling itself n, writes to the hub's socket: its
\* registration, a greenLight request, a request to alice and an answer to
\* alice
RawMessages(x, n) ==
  { Msg(serverName \o <<"nodeInit">>, RawPacket(x, n, serverName, <<"nodeInit">>, n)),
    Msg(serverName \o <<"greenLight">>, RawPacket(x, n, serverName, <<"greenLight">>, n)),
    Msg(serverName \o <<"send">>, RawPacket(x, n, <<"alice">>, <<"slow">>, n)),
    Msg(serverName \o <<"return">>, RawPacket(x, <<"alice">>, n, <<"slow">>, n)) }

\* a registration in the layout of the Client class: no args
RegistrationWithoutArgs(x, n) ==
  Msg(serverName \o <<"nodeInit">>,
      [ sender |-> n, receiver |-> serverName, apiCall |-> <<"nodeInit">>,
        returnCode |-> RawCode[x], data |-> n ])

RegisterKeepingOld(reg, name, c) == reg \cup { <<name, c>> }

\* this.sockets[name] = socket
Register(reg, name, c) == { s \in reg : s[1] # name } \cup { <<name, c>> }

\* the keys of the packages object
PackageKeys(doc) == { e[1][2] : e \in { d \in doc : Len(d[1]) >= 2 /\ d[1][1] = "packages" } }

\* what an if takes for true: not undefined, false, 0, '' or null
Truthy(v) ==
  v # Undefined /\ v \notin {Scalar("false"), Scalar("0"), Scalar(""), Scalar("null")}

SpawnableWithHub(doc) ==
  { k \in PackageKeys(doc) :
      /\ Truthy(FindValue(doc, <<"packages", k, "enabled">>))
      /\ Truthy(FindValue(doc, <<"packages", k, "persistent">>)) }

\* the packages onConnect starts a process for
Spawnable(doc) ==
  { k \in PackageKeys(doc) :
      /\ Truthy(FindValue(doc, <<"packages", k, "enabled">>))
      /\ Truthy(FindValue(doc, <<"packages", k, "persistent">>))
      /\ <<k>> # serverName }

\* Object.keys(packages).forEach: every key once, in the order of the file
SpawnOrder(S) ==
  { q \in [1..Cardinality(S) -> S] : \A i, j \in 1..Cardinality(S) : q[i] = q[j] => i = j }

HubRunGreenFirst ==
  /\ hubPc = "constructed"
  /\ hubPc' = "serving"
  /\ greenLight' = TRUE
  /\ UNCHANGED <<routeVars, runVars, sockets, storeVars>>
  /\ UNCHANGED extVars

\* Server.run: the handlers are bound, args.onConnect starts the persistent
\* packages and gives the green light, the server starts
HubRun ==
  /\ hubPc = "constructed"
  /\ hubPc' = "serving"
  /\ nodes' \in SpawnOrder(Spawnable(db))
  /\ greenLight' = TRUE
  /\ UNCHANGED <<routeVars, runVars, sockets, storeVars>>
  /\ UNCHANGED <<promiseVars, invoked, thrown, checkVars>>

\* Client.run, the 'connect' event: nodeInit is emitted, then either onInit
\* is entered or loadCallbacks is called.  loadCallbacks is a plain function
\* called without a receiver inside a class body: its this is undefined,
\* this.calls throws before a handler is bound, and nothing catches it.
Connect(c, withInit) ==
  /\ hubPc = "serving"
  /\ pc[c] = "idle"
  /\ LET packet == CallPacket(c, serverName, <<"nodeInit">>, nodeName[c], FALSE)
     IN /\ calls' = Append(calls, [conn |-> c, packet |-> packet, cb |-> FALSE])
        /\ toHub' = [toHub EXCEPT ![c] = Append(@, Msg(EmitKey(packet), packet))]
  /\ pc' = [pc EXCEPT ![c] = IF withInit THEN "onInit" ELSE "crashed"]
  /\ UNCHANGED bound
  /\ UNCHANGED <<now, pending, toNode, fired, serving, seen, routed, replies>>
  /\ UNCHANGED <<rawSent, hubVars>>
  /\ UNCHANGED extVars

\* onInit calls back: loadCallbacks is called and throws as above
LoadCallbacks(c) ==
  /\ pc[c] = "onInit"
  /\ pc' = [pc EXCEPT ![c] = "crashed"]
  /\ UNCHANGED bound
  /\ UNCHANGED <<routeVars, rawSent, hubVars>>
  /\ UNCHANGED extVars

\* the 'disconnect' event of a node whose hub is gone
Disconnect(c) ==
  /\ hubPc = "crashed"
  /\ Connected(c)
  /\ pc' = [pc EXCEPT ![c] = "closed"]
  /\ UNCHANGED <<routeVars, bound, rawSent, hubVars>>
  /\ UNCHANGED extVars

\* the hub's nodeInit handler; a packet without args makes packet.args.name
\* throw, and nothing catches it
HubNodeInit(c) ==
  /\ hubPc = "serving"
  /\ toHub[c] # <<>>
  /\ Head(toHub[c]).key = serverName \o <<"nodeInit">>
  /\ toHub' = [toHub EXCEPT ![c] = Tail(@)]
  /\ LET p == Head(toHub[c]).packet
     IN IF "args" \in DOMAIN p
          THEN /\ sockets' = Register(sockets, p.args.name, c)
               /\ toNode' = Broadcast(toNode, Msg(ReturnCall(p), p))
               /\ UNCHANGED hubPc
          ELSE /\ hubPc' = "crashed"
               /\ UNCHANGED <<sockets, toNode>>
  /\ UNCHANGED <<now, calls, pending, fired, serving, seen, routed, replies>>
  /\ UNCHANGED <<runVars, greenLight, storeVars>>
  /\ UNCHANGED extVars

HubGreenLightUnset(c) ==
  /\ hubPc = "serving"
  /\ toHub[c] # <<>>
  /\ Head(toHub[c]).key = serverName \o <<"greenLight">>
  /\ toHub' = [toHub EXCEPT ![c] = Tail(@)]
  /\ LET p == Head(toHub[c]).packet
     IN toNode' = Broadcast(toNode, Msg(ReturnCall(p), p))
  /\ UNCHANGED <<now, calls, pending, fired, serving, seen, routed, replies>>
  /\ UNCHANGED <<runVars, hubVars>>
  /\ UNCHANGED extVars

\* the hub's greenLight handler
HubGreenLight(c) ==
  /\ hubPc = "serving"
  /\ toHub[c] # <<>>
  /\ Head(toHub[c]).key = serverName \o <<"greenLight">>
  /\ toHub' = [toHub EXCEPT ![c] = Tail(@)]
  /\ LET p == With(Head(toHub[c]).packet, "result", greenLight)
     IN toNode' = Broadcast(toNode, Msg(ReturnCall(p), p))
  /\ UNCHANGED <<now, calls, pending, fired, serving, seen, routed, replies>>
  /\ UNCHANGED <<runVars, hubVars>>
  /\ UNCHANGED extVars

\* another process connects to the hub's socket
RawConnect(x) ==
  /\ hubPc = "serving"
  /\ pc[x] = "idle"
  /\ pc' = [pc EXCEPT ![x] = "running"]
  /\ UNCHANGED <<routeVars, bound, rawSent, hubVars>>
  /\ UNCHANGED extVars

\* ... writes a message to it
RawEmit(x, m) ==
  /\ pc[x] = "running"
  /\ rawSent < MaxRaw
  /\ rawSent' = rawSent + 1
  /\ toHub' = [toHub EXCEPT ![x] = Append(@, m)]
  /\ UNCHANGED <<now, calls, pending, toNode, fired, serving, seen, routed, replies>>
  /\ UNCHANGED <<pc, bound, hubVars>>
  /\ UNCHANGED extVars

\* ... reads a message from it
RawReceive(x) ==
  /\ pc[x] = "running"
  /\ toNode[x] # <<>>
  /\ toNode' = [toNode EXCEPT ![x] = Tail(@)]
  /\ seen' = [seen EXCEPT ![x] = @ \cup {Head(toNode[x])}]
  /\ UNCHANGED <<now, calls, pending, toHub, fired, serving, routed, replies>>
  /\ UNCHANGED <<runVars, hubVars>>
  /\ UNCHANGED extVars

RawDisconnectResetting(x) ==
  /\ pc[x] = "running"
  /\ pc' = [pc EXCEPT ![x] = "closed"]
  /\ greenLight' = FALSE
  /\ UNCHANGED <<routeVars, bound, rawSent, sockets, hubPc, storeVars>>
  /\ UNCHANGED extVars

\* ... and closes it.  The hub's socket.disconnected handler walks the
\* indices of Object.keys(this.sockets), not the keys: this.sockets[index]
\* is undefined for the names of this model, the emit throws, and the delete
\* in the catch removes nothing.
RawDisconnect(x) ==
  /\ pc[x] = "running"
  /\ pc' = [pc EXCEPT ![x] = "closed"]
  /\ UNCHANGED <<routeVars, bound, rawSent, hubVars>>
  /\ UNCHANGED extVars

InitRun ==
  /\ now = 1
  /\ calls = <<>>
  /\ pending = {}
  /\ toHub = [c \in Socks |-> <<>>]
  /\ toNode = [c \in Socks |-> <<>>]
  /\ fired = <<>>
  /\ serving = [c \in Conns |-> {}]
  /\ seen = [c \in Socks |-> {}]
  /\ routed = {}
  /\ replies = 0
  /\ pc = [c \in Socks |-> "idle"]
  /\ bound = [c \in Conns |-> FALSE]
  /\ rawSent = 0
  /\ sockets = {}
  /\ greenLight = FALSE
  /\ hubPc = "constructed"
  /\ db = InitDoc
  /\ file = InitDoc
  /\ lastSet = [n \in SettingsSenders |-> Undefined]
  /\ timers = {}
  /\ settled = {}
  /\ invoked = [c \in Conns |-> <<>>]
  /\ nodes = <<>>
  /\ thrown = ""
  /\ argsIn = NoCheck
  /\ returned = <<>>
  /\ errors = <<>>

NextRun ==
  \/ HubRun
  \/ \E c \in Conns, withInit \in BOOLEAN : Connect(c, withInit)
  \/ \E c \in Conns : LoadCallbacks(c)
  \/ \E c \in Conns : Disconnect(c)
  \/ \E c \in Conns, t \in RunTargets, cb \in BOOLEAN : CallApi(c, t.receiver, t.apiCall, cb)
  \/ \E c \in Conns : NodeReceive(c)
  \/ \E c \in Socks : HubReturn(c)
  \/ \E c \in Socks : HubSend(c)
  \/ \E c \in Socks : HubNodeInit(c)
  \/ \E c \in Socks : HubGreenLight(c)
  \/ RawConnect("x1")
  \/ \E m \in RawMessages("x1", <<"carol">>) : RawEmit("x1", m)
  \/ RawReceive("x1")

SpecRun == InitRun /\ [][NextRun]_vars

(***************************************************************************)
(* The hub and the processes that register with it                         *)
(***************************************************************************)
NextReg ==
  \/ HubRun
  \/ \E x \in Raws : RawConnect(x)
  \/ \E x \in Raws, n \in RawNames : \E m \in RawMessages(x, n) : RawEmit(x, m)
  \/ \E x \in Raws : \E m \in { RegistrationWithoutArgs(x, n) : n \in RawNames } : RawEmit(x, m)
  \/ \E x \in Raws : RawReceive(x)
  \/ \E x \in Raws : RawDisconnect(x)
  \/ \E x \in Raws : HubNodeInit(x)
  \/ \E x \in Raws : HubGreenLight(x)
  \/ \E x \in Raws : HubSend(x)
  \/ \E x \in Raws : HubReturn(x)

SpecReg == InitRun /\ [][NextReg]_vars

\* no name is registered with two connections
OneConnectionPerName == \A s, t \in sockets : s[1] = t[1] => s = t

\* a handled nodeInit leaves the name registered with the socket it came
\* from, leaves every other name as it was, and changes nothing when the
\* name was already registered with that socket
NodeInitReplaces ==
  \A c \in Socks :
    (HubNodeInit(c) /\ "args" \in DOMAIN Head(toHub[c]).packet) =>
      LET name == Head(toHub[c]).packet.args.name
      IN /\ <<name, c>> \in sockets'
         /\ \A s \in sockets \cup sockets' :
              s[1] # name => (s \in sockets /\ s \in sockets')
         /\ <<name, c>> \in sockets => sockets' = sockets

\* C6: the registry holds at most one connection per name; a nodeInit for a
\* name replaces the connection registered under it; a repeated nodeInit
\* from the same connection changes nothing.
RegistryIsAMap == []OneConnectionPerName /\ [][NodeInitReplaces]_vars

\* a name registered by one process has been registered again by another
ReRegistered ==
  /\ <<(<<"carol">>), "x2">> \in sockets
  /\ \E m \in seen["x2"] :
       /\ m.key = <<"samcore", "nodeInit", "return", "carol", "1">>
       /\ m.packet.returnCode = RawCode["x1"]

(***************************************************************************)
(* The hub's settings API (index.js) over the settings store               *)
(***************************************************************************)

ReturnErrorKeepingStatus(p, errorMessage) ==
  IF "errorMessage" \in DOMAIN p /\ p.errorMessage = FALSE
    THEN With(p, "errorMessage", errorMessage)
    ELSE p

\* Server.returnError: the packet it hands to Server.return
ReturnError(p, errorMessage) ==
  LET q == With(p, "status", FALSE)
  IN IF "errorMessage" \in DOMAIN p /\ p.errorMessage = FALSE
       THEN With(q, "errorMessage", errorMessage)
       ELSE q

\* ['packages', packet.sender, 'settings'].join('.')
SettingsPath(sender) == <<"packages">> \o sender \o <<"settings">>

\* the packet the getSettings handler replies with
GetSettingsReply(doc, p) ==
  LET settings == FindValue(doc, SettingsPath(p.sender))
  IN IF settings # Undefined
       THEN With(p, "data", At(<<"result">>, settings))
       ELSE ReturnError(p, <<"Settings could not be found for node '">> \o p.sender \o <<"'!">>)

\* a request in the layout of Client.callApi
Request(x, sender, apiCall, data) ==
  [ sender |-> sender, receiver |-> serverName, apiCall |-> apiCall,
    returnCode |-> RawCode[x], data |-> data ]

\* the settings requests written to the hub's socket
SettingsMessages(x) ==
  UNION { { Msg(serverName \o <<"getSettings">>, Request(x, n, <<"getSettings">>, EmptyObject)),
            Msg(serverName \o <<"setSettings">>, Request(x, n, <<"setSettings">>, EmptyObject)) }
          \cup { Msg(serverName \o <<"setSettings">>,
                     Request(x, n, <<"setSettings">>, At(<<"settings">>, v)))
                 : v \in SettingsValues }
          : n \in SettingsSenders }
    \cup { Msg(serverName \o <<"setSettings">>,
               RawPacket(x, <<"bob">>, serverName, <<"setSettings">>, <<"bob">>)) }

\* a process writes a settings request to the hub's socket
EmitRequest(x, m) ==
  /\ pc[x] = "running"
  /\ rawSent < MaxRequests
  /\ rawSent' = rawSent + 1
  /\ toHub' = [toHub EXCEPT ![x] = Append(@, m)]
  /\ UNCHANGED <<now, calls, pending, toNode, fired, serving, seen, routed, replies>>
  /\ UNCHANGED <<pc, bound, hubVars>>
  /\ UNCHANGED extVars

\* the hub's getSettings handler
HubGetSettings(c) ==
  /\ hubPc = "serving"
  /\ toHub[c] # <<>>
  /\ Head(toHub[c]).key = serverName \o <<"getSettings">>
  /\ toHub' = [toHub EXCEPT ![c] = Tail(@)]
  /\ LET reply == GetSettingsReply(db, Head(toHub[c]).packet)
     IN toNode' = Broadcast(toNode, Msg(ReturnCall(reply), reply))
  /\ UNCHANGED <<now, calls, pending, fired, serving, seen, routed, replies>>
  /\ UNCHANGED <<runVars, hubVars>>
  /\ UNCHANGED extVars

\* the hub's setSettings handler; the store saves the file after every set.
\* A packet without data makes 'settings' in packet.data throw.
HubSetSettings(c) ==
  /\ hubPc = "serving"
  /\ toHub[c] # <<>>
  /\ Head(toHub[c]).key = serverName \o <<"setSettings">>
  /\ toHub' = [toHub EXCEPT ![c] = Tail(@)]
  /\ LET p == Head(toHub[c]).packet
     IN IF "data" \notin DOMAIN p
          THEN /\ hubPc' = "crashed"
               /\ UNCHANGED <<toNode, storeVars>>
          ELSE IF FindValue(p.data, <<"settings">>) = Undefined
          THEN /\ LET reply == ReturnError(p, <<"settings argument not included!">>)
                  IN toNode' = Broadcast(toNode, Msg(ReturnCall(reply), reply))
               /\ UNCHANGED <<hubPc, storeVars>>
          ELSE IF FindValue(db, <<"packages">> \o p.sender) # Undefined
          THEN /\ db' = SetValue(db, SettingsPath(p.sender), FindValue(p.data, <<"settings">>))
               /\ file' = Stringify(db')
               /\ lastSet' = [lastSet EXCEPT ![p.sender] = FindValue(p.data, <<"settings">>)]
               /\ toNode' = Broadcast(toNode, Msg(ReturnCall(p), p))
               /\ UNCHANGED hubPc
          ELSE /\ LET reply == ReturnError(p, <<"There is an issue with the SamCoreSettings.json file!">>)
                  IN toNode' = Broadcast(toNode, Msg(ReturnCall(reply), reply))
               /\ UNCHANGED <<hubPc, storeVars>>
  /\ UNCHANGED <<now, calls, pending, fired, serving, seen, routed, replies>>
  /\ UNCHANGED <<runVars, sockets, greenLight>>
  /\ UNCHANGED extVars

NextSettings ==
  \/ HubRun
  \/ RawConnect("x1")
  \/ \E m \in SettingsMessages("x1") : EmitRequest("x1", m)
  \/ RawReceive("x1")
  \/ HubGetSettings("x1")
  \/ HubSetSettings("x1")

SpecSettings == InitRun /\ [][NextSettings]_vars

\* the hub-level part of the document: everything outside packages
HubLevel(doc) == { e \in doc : e[1] = <<>> \/ e[1][1] # "packages" }

\* the request the hub is about to handle on socket c
Handling(c) == Head(toHub[c]).packet

\* C7: a setSettings request from S changes nothing of the document outside
\* packages.<S>.settings: no packages.<X> with X different from S, and no
\* hub-level key.
SetSettingsWritesOwnSubtree ==
  [][ \A c \in Socks : HubSetSettings(c) =>
        /\ HubLevel(db') = HubLevel(db)
        /\ \A k \in PackageKeys(db) \cup PackageKeys(db') :
             <<k>> # Handling(c).sender =>
               FindValue(db', <<"packages", k>>) = FindValue(db, <<"packages", k>>) ]_vars

\* C8: what getSettings answers to node B does not change when another node
\* A has a setSettings request handled.
GetSettingsIndependentOfOthers ==
  [][ \A c \in Socks : HubSetSettings(c) =>
        \A B \in SettingsSenders \ {Handling(c).sender} :
          GetSettingsReply(db', Request(c, B, <<"getSettings">>, EmptyObject))
            = GetSettingsReply(db, Request(c, B, <<"getSettings">>, EmptyObject)) ]_vars

\* C9: when the last successful setSettings of S carried V, a getSettings
\* request from S is answered without status false and with result V.
GetAfterSetReturnsValue ==
  [][ \A c \in Socks : HubGetSettings(c) =>
        LET S == Handling(c).sender
            reply == GetSettingsReply(db, Handling(c))
        IN lastSet[S] # Undefined =>
             /\ "status" \in DOMAIN reply => reply.status = TRUE
             /\ reply.data = At(<<"result">>, lastSet[S]) ]_vars

\* a reply to the node's own greenLight request, carrying result true, has
\* reached the node
GreenLit(c) ==
  \E m \in seen[c] :
    /\ m.packet.sender = nodeName[c]
    /\ m.packet.receiver = serverName
    /\ m.packet.apiCall = <<"greenLight">>
    /\ m.key = ReturnCall(m.packet)
    /\ "result" \in DOMAIN m.packet
    /\ m.packet.result = TRUE

\* the node has emitted a packet addressed to another node
DomainEmitted(c) ==
  \E i \in 1..Len(calls) : calls[i].conn = c /\ calls[i].packet.receiver # serverName

\* C5: a node has a request in one of its handlers, or has emitted a packet
\* to another node, only after a greenLight reply carrying true reached it.
NothingBeforeGreenLight ==
  \A c \in Conns : (serving[c] # {} \/ DomainEmitted(c)) => GreenLit(c)

(***************************************************************************)
(* Properties of the routing core                                          *)
(***************************************************************************)

Range(q) == { q[i] : i \in 1..Len(q) }

\* how many times the callback of call i ran
TimesFired(i) == Cardinality({ k \in 1..Len(fired) : fired[k].id = i })

\* the hub's reply to call i has reached the caller's socket
ReplyDelivered(i) ==
  \E m \in seen[calls[i].conn] :
    /\ m.key = ReturnCall(calls[i].packet)
    /\ m.packet = calls[i].packet

\* the callback of call i ran with the reply to call i
ResolvedWithOwnReply(i) ==
  \E k \in 1..Len(fired) : fired[k].id = i /\ fired[k].packet = calls[i].packet

\* C1: a packet that resolves a pending call carries the receiver, the
\* apiCall and the returnCode of that call.
ReplyMatchesCall ==
  \A k \in 1..Len(fired) :
    LET q == calls[fired[k].id].packet
    IN /\ fired[k].packet.receiver = q.receiver
       /\ fired[k].packet.apiCall = q.apiCall
       /\ fired[k].packet.returnCode = q.returnCode

\* C2: a pending call is resolved at most once, and exactly once as soon as
\* its reply has arrived at the caller.
ResolvedExactlyOnce ==
  \A i \in 1..Len(calls) :
    calls[i].cb =>
      /\ TimesFired(i) <= 1
      /\ ReplyDelivered(i) => TimesFired(i) = 1

\* C3: two calls of one client to the same receiver and apiCall that are in
\* flight together are each resolved with their own reply once both replies
\* have arrived.
ConcurrentCallsOwnReply ==
  \A i, j \in 1..Len(calls) :
    ( /\ i # j
      /\ calls[i].cb /\ calls[j].cb
      /\ calls[i].conn = calls[j].conn
      /\ calls[i].packet.receiver = calls[j].packet.receiver
      /\ calls[i].packet.apiCall = calls[j].packet.apiCall
      /\ ReplyDelivered(i) /\ ReplyDelivered(j) )
    => ResolvedWithOwnReply(i) /\ ResolvedWithOwnReply(j)

\* C4: two calls one client makes with a callback carry distinct, non-null
\* return codes, also when they are made within the same millisecond.
DistinctReturnCodes ==
  \A i, j \in 1..Len(calls) :
    ( i # j /\ calls[i].cb /\ calls[j].cb /\ calls[i].conn = calls[j].conn )
    => /\ calls[i].packet.returnCode # Null
       /\ calls[i].packet.returnCode # calls[j].packet.returnCode

\* whether this.sockets holds a connection under the name
Registered(name) == \E s \in sockets : s[1] = name

\* C10: when the hub has handled a send whose receiver is not registered, an
\* error reply (status false, the "does not exist" message) has been emitted
\* under the sender's reply key.
UnregisteredReceiverError ==
  \A p \in routed :
    ~Registered(p.receiver) =>
      \E c \in Socks : \E m \in seen[c] \cup Range(toNode[c]) :
        /\ m.key = ReturnCall(p)
        /\ "status" \in DOMAIN m.packet
        /\ m.packet.status = FALSE
        /\ "errorMessage" \in DOMAIN m.packet
        /\ m.packet.errorMessage = <<"Node \"">> \o p.receiver \o <<"\" does not exist!">>

\* the call's promise was settled by its timer
TimedOut(i) == [id |-> i, by |-> "timer"] \in settled

\* what the call's promise is settled with: the timer branch's value, or the
\* packet the callback was first run with
PromiseValue(i) ==
  IF TimedOut(i)
    THEN TimeoutValue
    ELSE fired[CHOOSE k \in 1..Len(fired) :
                 fired[k].id = i /\ \A j \in 1..(k - 1) : fired[j].id # i].packet

\* C11: a call with a timeout to a receiver that is not registered is
\* settled once its timer has fired, and the packet it is settled with has
\* top-level status false and an errorMessage.
TimeoutResolvesWithError ==
  \A i \in 1..Len(calls) :
    (TimedOut(i) /\ ~Registered(calls[i].packet.receiver)) =>
      /\ "status" \in DOMAIN PromiseValue(i)
      /\ PromiseValue(i).status = FALSE
      /\ "errorMessage" \in DOMAIN PromiseValue(i)

\* C12: once the timeout of a call has fired, the client holds no listener
\* for the call any more.
NoListenerAfterTimeout ==
  \A i \in 1..Len(calls) : TimedOut(i) => i \notin pending

(***************************************************************************)
(* Requests of one sender to one receiver, among those of other senders    *)
(***************************************************************************)
OrderTargets == { [receiver |-> <<"alice">>, apiCall |-> <<"slow">>] }

\* a request to alice from a process that is not one of the nodes
ForeignRequest(x, n) ==
  Msg(serverName \o <<"send">>, RawPacket(x, n, <<"alice">>, <<"slow">>, n))

NextOrder ==
  \/ \E t \in OrderTargets : CallApi("c2", t.receiver, t.apiCall, FALSE)
  \/ RawConnect("x1")
  \/ \E m \in { ForeignRequest("x1", n) : n \in RawNames } : RawEmit("x1", m)
  \/ RawReceive("x1")
  \/ \E c \in Socks : HubSend(c)
  \/ \E c \in Conns : NodeReceive(c)

SpecOrder == Init /\ [][NextOrder]_vars

\* the position of the callApi that issued the packet
IssueIndex(p) == CHOOSE i \in 1..Len(calls) : calls[i].packet = p

\* the packet was issued by callApi
Issued(p) == \E i \in 1..Len(calls) : calls[i].packet = p

\* C13: the handlers of a receiver take the requests of one sender in the
\* order the sender issued them, whatever other senders' requests come in
\* between.
HandledInSendOrder ==
  \A r \in Conns : \A k, l \in 1..Len(invoked[r]) :
    ( /\ k < l
      /\ Issued(invoked[r][k]) /\ Issued(invoked[r][l])
      /\ invoked[r][k].sender = invoked[r][l].sender )
    => IssueIndex(invoked[r][k]) < IssueIndex(invoked[r][l])

\* alice has handled two requests of bob with a request of another sender
\* between them
TwoOfBobAroundAnother ==
  /\ Len(invoked["c1"]) >= 3
  /\ invoked["c1"][1].sender = <<"bob">>
  /\ invoked["c1"][2].sender # <<"bob">>
  /\ invoked["c1"][3].sender = <<"bob">>

(***************************************************************************)
(* Packets in the layout of Helpers.Packet on their way through the hub    *)
(***************************************************************************)
\* Helpers.Packet.new(args), built at time stamp
PacketNew(args, stamp) ==
  [ sender       |-> IF "sender" \in DOMAIN args THEN args.sender ELSE <<>>,
    receiver     |-> IF "receiver" \in DOMAIN args THEN args.receiver ELSE <<>>,
    apiCall      |-> IF "apiCall" \in DOMAIN args THEN args.apiCall ELSE <<>>,
    returnCode   |-> IF "returnCode" \in DOMAIN args /\ args.returnCode = FALSE
                       THEN Null ELSE stamp,
    args         |-> IF "args" \in DOMAIN args THEN args.args ELSE EmptyObject,
    status       |-> TRUE,
    result       |-> IF "result" \in DOMAIN args THEN args.result ELSE 0,
    errorMessage |-> FALSE ]

\* the fields of a packet
PacketFields ==
  {"sender", "receiver", "apiCall", "returnCode", "args", "result", "status", "errorMessage"}

\* the requests process x, calling itself n, sends to m: with and without a
\* return code
ForwardRequests(x, n, m) ==
  { PacketNew([sender |-> n, receiver |-> m, apiCall |-> <<"slow">>,
               args |-> At(<<"name">>, Scalar("n"))], RawCode[x]),
    PacketNew([sender |-> n, receiver |-> m, apiCall |-> <<"slow">>,
               returnCode |-> FALSE], RawCode[x]) }

\* the answers process x, calling itself n, gives to a request of m: the
\* request with a result and a status put in
ForwardAnswers(x, n, m) ==
  { [ PacketNew([sender |-> m, receiver |-> n, apiCall |-> <<"slow">>], RawCode[x])
        EXCEPT !.status = st, !.result = r ] : st \in BOOLEAN, r \in {0, 1} }

\* what process x writes to the hub's socket
ForwardMessages(x, n, m) ==
  { Msg(serverName \o <<"send">>, q) : q \in ForwardRequests(x, n, m) }
    \cup { Msg(serverName \o <<"return">>, q) : q \in ForwardAnswers(x, n, m) }

NextForward ==
  \/ HubRun
  \/ \E x \in Raws : RawConnect(x)
  \/ \E m \in ForwardMessages("x1", <<"carol">>, <<"dave">>) : RawEmit("x1", m)
  \/ \E m \in ForwardMessages("x2", <<"dave">>, <<"carol">>) : RawEmit("x2", m)
  \/ \E x \in Raws : RawReceive(x)
  \/ \E x \in Raws : HubSend(x)
  \/ \E x \in Raws : HubReturn(x)

SpecForward == InitRun /\ [][NextForward]_vars

\* the messages this step put on the connection to d
Emitted(d) == { toNode'[d][k] : k \in (Len(toNode[d]) + 1)..Len(toNode'[d]) }

\* C14: when the hub forwards a packet, as a request or as a reply, every
\* message it emits carries the packet it received with sender, receiver,
\* apiCall, returnCode, args, result, status and errorMessage as they came;
\* the hub adds the transport key and nothing else.
ForwardingKeepsPacket ==
  [][ \A c \in Socks : (HubSend(c) \/ HubReturn(c)) =>
        \A d \in Socks : \A m \in Emitted(d) :
          /\ DOMAIN m = {"key", "packet"}
          /\ DOMAIN m.packet = DOMAIN Handling(c)
          /\ \A f \in PacketFields \cap DOMAIN Handling(c) :
               m.packet[f] = Handling(c)[f] ]_vars

\* a process has received a forwarded request and a forwarded reply that
\* reports a failure
ForwardedBothWays ==
  \E d \in Raws : \E m, n \in seen[d] :
    /\ DOMAIN m.packet = PacketFields /\ DOMAIN n.packet = PacketFields
    /\ m.key = SendCall(m.packet) /\ m.packet.returnCode = Null
    /\ n.key = ReturnCall(n.packet) /\ n.packet.status = FALSE /\ n.packet.result = 1

\* the node a forwarded message is meant for: the receiver of a request, the
\* sender of the request for a reply
Addressee(m) ==
  IF m.key = SendCall(m.packet) THEN m.packet.receiver ELSE m.packet.sender

\* C15: a packet the hub forwards is put on the connection registered under
\* the name of its addressee and on no other connection.
EmittedToAddresseeOnly ==
  \A d \in Socks : \A m \in Range(toNode[d]) :
    m.key \in {SendCall(m.packet), ReturnCall(m.packet)} =>
      <<Addressee(m), d>> \in sockets

\* the connection has a name in the registry
HasRegistered(c) == \E s \in sockets : s[2] = c

\* C16: a request or reply that arrives on a connection which has not
\* registered a name is not forwarded; the hub answers that connection with
\* status false and an error message.
UnregisteredSenderRefused ==
  [][ \A c \in Socks :
        ((HubSend(c) \/ HubReturn(c)) /\ ~HasRegistered(c)) =>
          /\ Emitted(c) # {}
          /\ \A d \in Socks : \A m \in Emitted(d) :
               /\ d = c
               /\ "status" \in DOMAIN m.packet
               /\ m.packet.status = FALSE
               /\ "errorMessage" \in DOMAIN m.packet ]_vars

\* C17: once the hub has handled the disconnection of a socket, no name of
\* the registry maps to a closed connection (and the names of the open
\* connections are still there).
RegistryHasNoClosedConnection ==
  \A s \in sockets : pc[s[2]] # "closed"

(***************************************************************************)
(* The hub's doesNodeExist API (index.js)                                  *)
(***************************************************************************)
\* the doesNodeExist requests written to the hub's socket: with a name, with
\* no name, and in the hub's own packet layout
ExistMessages(x, n) ==
  { Msg(serverName \o <<"doesNodeExist">>,
        Request(x, n, <<"doesNodeExist">>, At(<<"name">>, Scalar(k[1])))) : k \in RawNames }
    \cup { Msg(serverName \o <<"doesNodeExist">>,
               Request(x, n, <<"doesNodeExist">>, EmptyObject)),
           Msg(serverName \o <<"doesNodeExist">>,
               RawPacket(x, n, serverName, <<"doesNodeExist">>, n)) }

\* the name a request asks for
NameArg(p) == << (CHOOSE e \in FindValue(p.data, <<"name">>) : TRUE)[2] >>

\* the hub's doesNodeExist handlers.  index.js adds the call twice, so two
\* listeners run on the packet, one after the other.  Without packet.data
\* the test 'name' in packet.data throws; without a name each listener
\* answers through returnError; with a name the first listener replaces
\* packet.data and then reads packet.bdata.name, which throws, and nothing
\* catches it.
HubDoesNodeExist(c) ==
  /\ hubPc = "serving"
  /\ toHub[c] # <<>>
  /\ Head(toHub[c]).key = serverName \o <<"doesNodeExist">>
  /\ toHub' = [toHub EXCEPT ![c] = Tail(@)]
  /\ LET p == Head(toHub[c]).packet
     IN IF "data" \notin DOMAIN p
          THEN /\ hubPc' = "crashed"
               /\ UNCHANGED toNode
          ELSE IF FindValue(p.data, <<"name">>) = Undefined
          THEN /\ LET first  == ReturnError(p, <<"name argument not included!">>)
                      second == ReturnError(first, <<"name argument not included!">>)
                  IN toNode' = Broadcast(Broadcast(toNode, Msg(ReturnCall(first), first)),
                                         Msg(ReturnCall(second), second))
               /\ UNCHANGED hubPc
          ELSE /\ hubPc' = "crashed"
               /\ UNCHANGED toNode
  /\ UNCHANGED <<now, calls, pending, fired, serving, seen, routed, replies>>
  /\ UNCHANGED <<runVars, sockets, greenLight, storeVars>>
  /\ UNCHANGED extVars

NextExist ==
  \/ HubRun
  \/ \E x \in Raws : RawConnect(x)
  \/ \E m \in { Msg(serverName \o <<"nodeInit">>,
                     RawPacket("x1", n, serverName, <<"nodeInit">>, n)) : n \in RawNames } :
       RawEmit("x1", m)
  \/ \E m \in ExistMessages("x2", <<"dave">>) : RawEmit("x2", m)
  \/ \E x \in Raws : RawReceive(x)
  \/ \E x \in Raws : HubNodeInit(x)
  \/ \E x \in Raws : HubDoesNodeExist(x)

SpecExist == InitRun /\ [][NextExist]_vars

\* the request names a node, in args (the hub's packet layout) or in data
\* (the client's)
AsksForName(p) ==
  \/ "args" \in DOMAIN p
  \/ "data" \in DOMAIN p /\ FindValue(p.data, <<"name">>) # Undefined

\* the name it asks for
AskedName(p) == IF "args" \in DOMAIN p THEN p.args.name ELSE NameArg(p)

\* the result a reply carries, in either layout
ResultOf(p) ==
  IF "data" \in DOMAIN p THEN FindValue(p.data, <<"result">>) = Scalar("true")
  ELSE "result" \in DOMAIN p /\ p.result = TRUE

\* C18: a doesNodeExist request that names N gets exactly one reply, whose
\* result is true exactly when N is a name of the registry; a request
\* without a name gets an error reply (status false).
DoesNodeExistAnswers ==
  [][ \A c \in Socks : HubDoesNodeExist(c) =>
        /\ Len(toNode'[c]) = Len(toNode[c]) + 1
        /\ \A m \in Emitted(c) :
             IF AsksForName(Handling(c))
               THEN ResultOf(m.packet) = Registered(AskedName(Handling(c)))
               ELSE "status" \in DOMAIN m.packet /\ m.packet.status = FALSE ]_vars

\* C19: every reply to a greenLight request carries, as its result, the value
\* the hub's greenLight flag has at the moment the request is handled.  (The
\* flag is set in the same turn in which the handlers are bound, so every
\* request is handled after it.)
GreenLightReplyCarriesFlag ==
  [][ \A c \in Socks : HubGreenLight(c) =>
        /\ \A d \in Socks : Connected(d) => Emitted(d) # {}
        /\ \A d \in Socks : \A m \in Emitted(d) :
             /\ m.key = ReturnCall(Handling(c))
             /\ "result" \in DOMAIN m.packet
             /\ m.packet.result = greenLight ]_vars

\* a process has received the reply to its greenLight request, with the
\* value of the flag
GreenLightReplied ==
  \E x \in Raws : \E m \in seen[x] :
    /\ m.packet.apiCall = <<"greenLight">>
    /\ "result" \in DOMAIN m.packet
    /\ m.packet.result = greenLight

(***************************************************************************)
(* Start of the persistent packages (index.js onConnect)                   *)
(***************************************************************************)
\* the packages a settings file may hold besides the hub's own
SpawnNames == {"bob", "carol"}

\* a package entry with its flags; an entry may lack the enabled flag
PackageEntries ==
  { At(<<"enabled">>, Scalar(en)) \cup At(<<"persistent">>, Scalar(pe))
      \cup At(<<"settings">>, EmptyObject) : en, pe \in {"true", "false"} }
    \cup { At(<<"persistent">>, Scalar("true")) \cup At(<<"settings">>, EmptyObject) }

\* the settings files the hub may start with: its own package, and any of
\* the other packages
SpawnDocs ==
  { At(<<"packages", "samcore">>,
       defaultPackage("1.0.0", "true", "true", "true", "https://github.com/vindennl48/Sam-SamCore"))
      \cup UNION { At(<<"packages", k>>, f[k]) : k \in DOMAIN f }
    : f \in UNION { [S -> PackageEntries] : S \in SUBSET SpawnNames } }

InitSpawn ==
  /\ now = 1
  /\ calls = <<>>
  /\ pending = {}
  /\ toHub = [c \in Socks |-> <<>>]
  /\ toNode = [c \in Socks |-> <<>>]
  /\ fired = <<>>
  /\ serving = [c \in Conns |-> {}]
  /\ seen = [c \in Socks |-> {}]
  /\ routed = {}
  /\ replies = 0
  /\ pc = [c \in Socks |-> "idle"]
  /\ bound = [c \in Conns |-> FALSE]
  /\ rawSent = 0
  /\ sockets = {}
  /\ greenLight = FALSE
  /\ hubPc = "constructed"
  /\ db \in SpawnDocs
  /\ file = db
  /\ lastSet = [n \in SettingsSenders |-> Undefined]
  /\ timers = {}
  /\ settled = {}
  /\ invoked = [c \in Conns |-> <<>>]
  /\ nodes = <<>>
  /\ thrown = ""
  /\ argsIn = NoCheck
  /\ returned = <<>>
  /\ errors = <<>>

\* the greenLight requests process x may write, under either of its names
GreenLightRequests(x) ==
  { Msg(serverName \o <<"greenLight">>,
        RawPacket(x, n, serverName, <<"greenLight">>, n)) : n \in RawNames }

NextSpawn ==
  \/ HubRun
  \/ RawConnect("x1")
  \/ \E m \in GreenLightRequests("x1") : RawEmit("x1", m)
  \/ HubGreenLight("x1")
  \/ RawReceive("x1")

SpecSpawn == InitSpawn /\ [][NextSpawn]_vars

\* the package has the flag set to true
FlagSet(doc, k, flag) == FindValue(doc, <<"packages", k, flag>>) = Scalar("true")

\* C20: when the hub opens, the processes it starts are exactly the packages
\* with enabled = true and persistent = true whose name is not the hub's,
\* each started once; nothing is started before or after.
SpawnsPersistentPackages ==
  [][ /\ HubRun =>
           /\ nodes = <<>>
           /\ Range(nodes') = { k \in PackageKeys(db) :
                                  /\ FlagSet(db, k, "enabled")
                                  /\ FlagSet(db, k, "persistent")
                                  /\ <<k>> # serverName }
           /\ Cardinality(Range(nodes')) = Len(nodes')
      /\ ~HubRun => nodes' = nodes ]_vars

\* the hub has started one package and left out another one besides itself
SpawnedOneOfTwo ==
  /\ hubPc = "serving"
  /\ Len(nodes) = 1
  /\ Cardinality(PackageKeys(db)) = 3

(***************************************************************************)
(* The start-up sequence of a node (Client.run)                            *)
(***************************************************************************)
\* the hub's reply to the nodeInit of c has reached c
NodeInitReplied(c) ==
  \E m \in seen[c] :
    /\ m.packet.apiCall = <<"nodeInit">>
    /\ m.packet.sender = nodeName[c]
    /\ m.key = ReturnCall(m.packet)

\* c has emitted a packet that is not its nodeInit
EmittedBeyondNodeInit(c) ==
  \E i \in 1..Len(calls) : calls[i].conn = c /\ calls[i].packet.apiCall # <<"nodeInit">>

\* C21: a node runs its onInit hook, binds a handler or emits a packet other
\* than nodeInit only after the hub's reply to its nodeInit has reached it;
\* the registry then maps the node's name to its connection.
ProceedsAfterNodeInitReply ==
  \A c \in Conns :
    (pc[c] \in {"onInit", "running"} \/ bound[c] \/ EmittedBeyondNodeInit(c)) =>
      /\ NodeInitReplied(c)
      /\ <<nodeName[c], c>> \in sockets

ListenerKeyIsReplyKey ==
  \A i \in 1..Len(calls) :
    calls[i].cb =>
      /\ calls[i].packet.returnCode # Null
      /\ CallbackKey(calls[i].packet) = ReturnCall(calls[i].packet)

(***************************************************************************)
(* A handler that answers with an error (Client.returnError)               *)
(***************************************************************************)
\* Client.returnError(packet, errorMessage): the message it emits
ClientReturnError(p, errorMessage) ==
  Msg(serverName \o <<"returnError">>, With(p, "errorMessage", errorMessage))

\* an api handler answers with Client.returnError
ReplyError(c, p) ==
  /\ p \in serving[c]
  /\ replies < MaxReplies
  /\ replies' = replies + 1
  /\ toHub' = [toHub EXCEPT ![c] = Append(@, ClientReturnError(p, <<"Default Error Message">>))]
  /\ serving' = [serving EXCEPT ![c] = @ \ {p}]
  /\ UNCHANGED <<now, calls, pending, toNode, fired, seen, routed>>
  /\ UNCHANGED <<runVars, hubVars>>
  /\ UNCHANGED extVars

\* the message names the hub listens to
HubKeys ==
  { serverName \o <<k>> : k \in {"return", "send", "nodeInit", "greenLight", "message",
                                 "helloWorld", "doesNodeExist", "getUsername",
                                 "setUsername", "getSettings", "setSettings"} }

HubIgnoreSending(c) ==
  /\ hubPc = "serving"
  /\ toHub[c] # <<>>
  /\ Head(toHub[c]).key \notin HubKeys
  /\ toHub' = [toHub EXCEPT ![c] = Tail(@)]
  /\ toNode' = Broadcast(toNode, Msg(SendCall(Handling(c)), Handling(c)))
  /\ UNCHANGED <<now, calls, pending, fired, serving, seen, routed, replies>>
  /\ UNCHANGED <<runVars, hubVars>>
  /\ UNCHANGED extVars

\* a message under any other name: the '*' listener takes neither branch and
\* no other listener is bound to it
HubIgnore(c) ==
  /\ hubPc = "serving"
  /\ toHub[c] # <<>>
  /\ Head(toHub[c]).key \notin HubKeys
  /\ toHub' = [toHub EXCEPT ![c] = Tail(@)]
  /\ UNCHANGED <<now, calls, pending, toNode, fired, serving, seen, routed, replies>>
  /\ UNCHANGED <<runVars, hubVars>>
  /\ UNCHANGED extVars

NextError ==
  \/ Tick
  \/ \E c \in Conns, t \in OrderTargets, cb \in BOOLEAN : CallApi(c, t.receiver, t.apiCall, cb)
  \/ \E c \in Conns : HubSend(c)
  \/ \E c \in Conns : NodeReceive(c)
  \/ \E c \in Conns : \E p \in serving[c] : ReplyError(c, p)
  \/ \E c \in Conns : HubIgnore(c)

SpecError == Init /\ [][NextError]_vars

\* C24: the packet a handler emits through returnError has status false and
\* an errorMessage and goes out under <hubName>.return, so that the hub
\* delivers it to the caller as it delivers any reply.
ErrorReplyEmittedAsReturn ==
  \A c \in Conns : \A m \in Range(toHub[c]) :
    "errorMessage" \in DOMAIN m.packet =>
      /\ m.key = serverName \o <<"return">>
      /\ "status" \in DOMAIN m.packet
      /\ m.packet.status = FALSE

\* C25: every error the hub reports is a reply under the caller's reply key
\* with status false and a non-empty errorMessage.
HubErrorsCarryMessage ==
  \A x \in Socks : \A m \in Range(toNode[x]) \cup seen[x] :
    ("status" \in DOMAIN m.packet /\ m.packet.status = FALSE) =>
      /\ m.key = ReturnCall(m.packet)
      /\ "errorMessage" \in DOMAIN m.packet
      /\ m.packet.errorMessage # <<>>

\* C26: for every request to a built-in api of the hub that expects an
\* answer, the hub emits exactly one reply to the caller, whatever path the
\* handler takes.
ExactlyOneReply ==
  [][ \A c \in Socks :
        (HubDoesNodeExist(c) \/ HubNodeInit(c)) =>
          /\ Len(toNode'[c]) = Len(toNode[c]) + 1
          /\ toNode'[c][Len(toNode'[c])].key = ReturnCall(Handling(c)) ]_vars

(***************************************************************************)
(* The settings store as a library (EditJsonFile with autosave)            *)
(*                                                                         *)
(* An array holds the leaves of its elements behind the keys of ArrayKeys, *)
(* an empty array is the single leaf "[]".  A key whose value is undefined *)
(* is the single leaf "undefined" at its path.                             *)
(***************************************************************************)
MaxAppend == 2

UndefinedValue == Scalar("undefined")
EmptyArray     == Scalar("[]")
ArrayKeys      == <<"[0]", "[1]", "[2]", "[3]">>

\* path.join('.') of a path given as an array of segments; a segment is the
\* sequence of the '.'-free pieces of its text, so a path given as one
\* string is the array of that one segment
RECURSIVE Join(_)
Join(segments) ==
  IF segments = <<>> THEN <<>> ELSE Head(segments) \o Join(Tail(segments))

\* EditJsonFile.get: find-value hands out undefined both for a missing path
\* and for a key whose value is undefined
Get(doc, path) ==
  LET v == FindValue(doc, path) IN IF v = UndefinedValue THEN Undefined ELSE v

\* Array.isArray
IsArray(v) ==
  \/ v = EmptyArray
  \/ v # {} /\ \A e \in v : Len(e[1]) >= 1 /\ e[1][1] \in Range(ArrayKeys)

\* array.length
ArrayLen(v) == IF v = EmptyArray THEN 0 ELSE Cardinality({ e[1][1] : e \in v })

\* array.push(value)
Push(arr, v) ==
  (IF arr = EmptyArray THEN {} ELSE arr) \cup At(<<ArrayKeys[ArrayLen(arr) + 1]>>, v)

\* array.pop()
Pop(arr) ==
  IF ArrayLen(arr) <= 1 THEN EmptyArray
  ELSE { e \in arr : e[1][1] # ArrayKeys[ArrayLen(arr)] }

\* the paths the store is called with: 'a', 'a.b', ['a', 'b'], 'c'
PathInputs ==
  { << <<"a">> >>, << <<"a", "b">> >>, << <<"a">>, <<"b">> >>, << <<"c">> >> }

\* the paths append and pop are called with
ArrayInputs == { << <<"a">>, <<"b">> >>, << <<"c">> >> }

\* the values it is called with
StoreValues == { Scalar("1"), EmptyObject, At(<<"b">>, Scalar("2")) }

StoreSetUnsaved(input, v) ==
  /\ hubPc = "constructed"
  /\ db' = SetValue(db, Join(input), v)
  /\ thrown' = ""
  /\ UNCHANGED <<routeVars, runVars, sockets, greenLight, hubPc, file, lastSet>>
  /\ UNCHANGED <<promiseVars, invoked, nodes, checkVars>>

\* EditJsonFile.set(path, value), autosave on
StoreSet(input, v) ==
  /\ hubPc = "constructed"
  /\ db' = SetValue(db, Join(input), v)
  /\ file' = Stringify(db')
  /\ thrown' = ""
  /\ UNCHANGED <<routeVars, runVars, sockets, greenLight, hubPc, lastSet>>
  /\ UNCHANGED <<promiseVars, invoked, nodes, checkVars>>

\* EditJsonFile.unset(path): set(path, undefined)
StoreUnset(input) ==
  /\ hubPc = "constructed"
  /\ db' = SetValue(db, Join(input), UndefinedValue)
  /\ file' = Stringify(db')
  /\ thrown' = ""
  /\ UNCHANGED <<routeVars, runVars, sockets, greenLight, hubPc, lastSet>>
  /\ UNCHANGED <<promiseVars, invoked, nodes, checkVars>>

StoreAppendAnyway(input, v) ==
  /\ hubPc = "constructed"
  /\ LET data == Get(db, Join(input))
         arr  == IF IsArray(data) THEN data ELSE EmptyArray
     IN /\ ArrayLen(arr) < MaxAppend
        /\ db' = SetValue(db, Join(input), Push(arr, v))
        /\ file' = Stringify(db')
        /\ thrown' = ""
  /\ UNCHANGED <<routeVars, runVars, sockets, greenLight, hubPc, lastSet>>
  /\ UNCHANGED <<promiseVars, invoked, nodes, checkVars>>

\* EditJsonFile.append(path, value)
StoreAppend(input, v) ==
  /\ hubPc = "constructed"
  /\ LET data == Get(db, Join(input))
         arr  == IF data = Undefined THEN EmptyArray ELSE data
     IN IF ~IsArray(arr)
          THEN /\ thrown' = "The data is not an array!"
               /\ UNCHANGED <<db, file>>
          ELSE /\ ArrayLen(arr) < MaxAppend
               /\ db' = SetValue(db, Join(input), Push(arr, v))
               /\ file' = Stringify(db')
               /\ thrown' = ""
  /\ UNCHANGED <<routeVars, runVars, sockets, greenLight, hubPc, lastSet>>
  /\ UNCHANGED <<promiseVars, invoked, nodes, checkVars>>

\* EditJsonFile.pop(path)
StorePop(input) ==
  /\ hubPc = "constructed"
  /\ LET data == Get(db, Join(input))
     IN IF ~IsArray(data)
          THEN /\ thrown' = "The data is not an array!"
               /\ UNCHANGED <<db, file>>
          ELSE /\ db' = SetValue(db, Join(input), Pop(data))
               /\ file' = Stringify(db')
               /\ thrown' = ""
  /\ UNCHANGED <<routeVars, runVars, sockets, greenLight, hubPc, lastSet>>
  /\ UNCHANGED <<promiseVars, invoked, nodes, checkVars>>

NextStore ==
  \/ \E input \in PathInputs, v \in StoreValues : StoreSet(input, v)
  \/ \E input \in PathInputs : StoreUnset(input)
  \/ \E input \in ArrayInputs, v \in StoreValues : StoreAppend(input, v)
  \/ \E input \in ArrayInputs : StorePop(input)

\* the store is opened on a file that holds {}
InitStore ==
  /\ now = 1
  /\ calls = <<>>
  /\ pending = {}
  /\ toHub = [c \in Socks |-> <<>>]
  /\ toNode = [c \in Socks |-> <<>>]
  /\ fired = <<>>
  /\ serving = [c \in Conns |-> {}]
  /\ seen = [c \in Socks |-> {}]
  /\ routed = {}
  /\ replies = 0
  /\ pc = [c \in Socks |-> "idle"]
  /\ bound = [c \in Conns |-> FALSE]
  /\ rawSent = 0
  /\ sockets = {}
  /\ greenLight = FALSE
  /\ hubPc = "constructed"
  /\ db = EmptyObject
  /\ file = Stringify(db)
  /\ lastSet = [n \in SettingsSenders |-> Undefined]
  /\ timers = {}
  /\ settled = {}
  /\ invoked = [c \in Conns |-> <<>>]
  /\ nodes = <<>>
  /\ thrown = ""
  /\ argsIn = NoCheck
  /\ returned = <<>>
  /\ errors = <<>>

SpecStore == InitStore /\ [][NextStore]_vars

\* a write to the path has just returned: get hands out what was written
ReadsTheWrite ==
  /\ \A input \in PathInputs, v \in StoreValues :
       StoreSet(input, v) => Get(db', Join(input)) = v
  /\ \A input \in PathInputs :
       StoreUnset(input) => Get(db', Join(input)) = Undefined
  /\ \A input \in ArrayInputs, v \in StoreValues :
       (StoreAppend(input, v) /\ thrown' = "") =>
         Get(db', Join(input)) =
           Push(IF Get(db, Join(input)) = Undefined THEN EmptyArray
                ELSE Get(db, Join(input)), v)
  /\ \A input \in ArrayInputs :
       (StorePop(input) /\ thrown' = "") =>
         Get(db', Join(input)) = Pop(Get(db, Join(input)))

\* C27: with autosave, after every set, unset, append or pop the file holds
\* the serialization of the document in memory, and get of the written path
\* hands out the value of that write.
SavedAndReadBack ==
  [](file = Stringify(db)) /\ [][ReadsTheWrite]_vars

\* a key has been unset: it is still in memory, with no value, and is left
\* out of the file
UnsetKeyLeftOutOfFile ==
  /\ \E e \in db : e[2] = "undefined"
  /\ \E e \in db : e[2] \notin {"undefined", "{}"}
  /\ file # db

\* the two paths have nothing to do with each other
Unrelated(p, q) == ~IsPrefix(p, q) /\ ~IsPrefix(q, p)

\* C28: set(p, v) followed by get(p) gives v, whatever objects had to be
\* made on the way, and no path that is neither a prefix nor an extension of
\* p changes; a path given as an array of segments and the same path given
\* as one dot-joined string name the same place; get of a path that is not
\* there gives undefined.
SetThenGet ==
  [][ /\ \A input \in PathInputs, v \in StoreValues :
           StoreSet(input, v) =>
             /\ Get(db', Join(input)) = v
             /\ \A e \in db \cup db' :
                  Unrelated(Join(input), e[1]) => (e \in db /\ e \in db')
             /\ \A other \in PathInputs :
                  Join(other) = Join(input) => Get(db', Join(other)) = v
      /\ \A input \in PathInputs :
           (~\E e \in db' : IsPrefix(Join(input), e[1])) =>
             Get(db', Join(input)) = Undefined ]_vars

\* a.b has been set where there was no a, and c is as it was before
SetMadeIntermediate ==
  /\ Get(db, <<"a", "b">>) = Scalar("1")
  /\ Get(db, <<"c">>) = At(<<"b">>, Scalar("2"))

\* the elements of an array, first to last
Elements(arr) == [k \in 1..ArrayLen(arr) |-> FindValue(arr, <<ArrayKeys[k]>>)]

\* C29: append(p, v) throws 'The data is not an array!' and changes neither
\* the document nor the file when p holds something that is not an array;
\* makes the array [v] when p is absent; adds v at the end when p holds an
\* array.
AppendChecksArray ==
  [][ \A input \in ArrayInputs, v \in StoreValues :
        StoreAppend(input, v) =>
          LET old == Get(db, Join(input))
              new == Get(db', Join(input))
          IN IF old # Undefined /\ ~IsArray(old)
               THEN thrown' = "The data is not an array!" /\ db' = db /\ file' = file
               ELSE /\ thrown' = ""
                    /\ IsArray(new)
                    /\ Elements(new) =
                         (IF old = Undefined THEN <<>> ELSE Elements(old)) \o <<v>> ]_vars

\* an append has been refused while another path holds an array of two
AppendRefusedAndDone ==
  /\ thrown = "The data is not an array!"
  /\ IsArray(Get(db, <<"c">>)) /\ ArrayLen(Get(db, <<"c">>)) = 2
  /\ Get(db, <<"a", "b">>) = Scalar("1")

(***************************************************************************)
(* Start of the hub on its settings file (index.js, EditJsonFile.read)     *)
(***************************************************************************)
\* SamCoreSettings.json is not there, is empty, or holds text that is not
\* JSON
NoFile     == {}
EmptyFile  == Scalar("")
BrokenFile == Scalar("{ oops")

\* fs.readFileSync succeeds and JSON.parse accepts the text
Readable(f) == f \notin {NoFile, EmptyFile, BrokenFile}

\* the settings files the hub may be started on
StartFiles ==
  {NoFile, EmptyFile, BrokenFile, EmptyObject} \cup SpawnDocs
    \cup ({ UNION { At(<<"packages", k>>, f[k]) : k \in DOMAIN f }
            : f \in UNION { [S -> PackageEntries] : S \in SUBSET SpawnNames } } \ {NoFile})

\* node index.js up to the construction of the Server: new EditJsonFile
\* reads and parses the file, and throws when it is missing or not JSON;
\* the test for the hub's own package then names servername, an identifier
\* that is declared nowhere, and throws a ReferenceError.  Nothing catches
\* either.
HubLoad ==
  /\ hubPc = "off"
  /\ hubPc' = "crashed"
  /\ IF Readable(file)
       THEN db' = file /\ thrown' = "ReferenceError"
       ELSE UNCHANGED db
            /\ thrown' = (IF file = NoFile THEN "ENOENT" ELSE "SyntaxError")
  /\ UNCHANGED <<routeVars, runVars, sockets, greenLight, file, lastSet>>
  /\ UNCHANGED <<promiseVars, invoked, nodes, checkVars>>

InitStart ==
  /\ now = 1
  /\ calls = <<>>
  /\ pending = {}
  /\ toHub = [c \in Socks |-> <<>>]
  /\ toNode = [c \in Socks |-> <<>>]
  /\ fired = <<>>
  /\ serving = [c \in Conns |-> {}]
  /\ seen = [c \in Socks |-> {}]
  /\ routed = {}
  /\ replies = 0
  /\ pc = [c \in Socks |-> "idle"]
  /\ bound = [c \in Conns |-> FALSE]
  /\ rawSent = 0
  /\ sockets = {}
  /\ greenLight = FALSE
  /\ hubPc = "off"
  /\ db = Undefined
  /\ file \in StartFiles
  /\ lastSet = [n \in SettingsSenders |-> Undefined]
  /\ timers = {}
  /\ settled = {}
  /\ invoked = [c \in Conns |-> <<>>]
  /\ nodes = <<>>
  /\ thrown = ""
  /\ argsIn = NoCheck
  /\ returned = <<>>
  /\ errors = <<>>

NextStart == HubLoad

SpecStart == InitStart /\ [][NextStart]_vars

\* the file holds the hub's package with the values of a fresh start
HubPackageIn(f) ==
  LET flag(k) == FindValue(f, <<"packages">> \o serverName \o <<k>>)
  IN /\ flag("version") = Scalar("1.0.0")
     /\ flag("installed") = Scalar("true")
     /\ flag("persistent") = Scalar("true")
     /\ flag("mandatory") = Scalar("true")
     /\ flag("enabled") = Scalar("true")
     /\ flag("development") = Scalar("false")
     /\ flag("settings") = EmptyObject

\* C30: started on a missing or empty settings file, the hub comes up and
\* leaves a file that holds its own package with version 1.0.0, installed,
\* persistent, mandatory and enabled true, development false and settings
\* {}; started on a file that is not JSON, it stops and leaves the file as
\* it is.
StartCreatesHubPackage ==
  [][ HubLoad =>
        /\ file \in {NoFile, EmptyFile} =>
             (hubPc' = "constructed" /\ HubPackageIn(file'))
        /\ file = BrokenFile => (hubPc' = "crashed" /\ file' = file) ]_vars

(***************************************************************************)
(* Helpers.Packet.checkArgs (Helpers.js)                                   *)
(***************************************************************************)
\* the longest list of names checkArgs is called with
MaxNames == 2

\* the calls of checkArgs: a list of the names name and settings, and a
\* packet whose args hold any of the keys name, settings and other, or which
\* has no args at all
CheckInputs ==
  LET lists == UNION { [1..k -> {"name", "settings"}] : k \in 0..MaxNames }
  IN { [argsNames |-> l, packet |-> [args |-> a]] :
         l \in lists, a \in SUBSET {"name", "settings", "other"} }
       \cup { [argsNames |-> l, packet |-> [sender |-> <<"carol">>]] : l \in lists }

\* the names of the list that are no key of args, in the order of the list
RECURSIVE Missing(_, _)
Missing(argsNames, args) ==
  IF argsNames = <<>> THEN <<>>
  ELSE IF Head(argsNames) \in args
         THEN Missing(Tail(argsNames), args)
         ELSE <<Head(argsNames)>> \o Missing(Tail(argsNames), args)

\* Helpers.Packet.checkArgs(parent, argsNames, packet).  The test and the
\* return false sit in the callback given to forEach: the callback's result
\* is dropped, every name of the list is tested, parent.returnError is called
\* for each one that is missing, and the function itself ends in return true.
\* On a packet without args the test argName in packet.args throws.
CheckArgs ==
  /\ argsIn # NoCheck
  /\ returned = <<>>
  /\ thrown = ""
  /\ IF "args" \notin DOMAIN argsIn.packet
       THEN IF argsIn.argsNames = <<>>
              THEN /\ returned' = <<TRUE>>
                   /\ UNCHANGED <<thrown, errors>>
              ELSE /\ thrown' = "TypeError"
                   /\ UNCHANGED <<returned, errors>>
       ELSE /\ returned' = <<TRUE>>
            /\ errors' = [ i \in 1..Len(Missing(argsIn.argsNames, argsIn.packet.args)) |->
                             <<Missing(argsIn.argsNames, argsIn.packet.args)[i],
                               "argument not included in packet!">> ]
            /\ UNCHANGED thrown
  /\ UNCHANGED argsIn
  /\ UNCHANGED <<routeVars, runVars, hubVars, promiseVars, invoked, nodes>>

InitCheck ==
  /\ now = 1
  /\ calls = <<>>
  /\ pending = {}
  /\ toHub = [c \in Socks |-> <<>>]
  /\ toNode = [c \in Socks |-> <<>>]
  /\ fired = <<>>
  /\ serving = [c \in Conns |-> {}]
  /\ seen = [c \in Socks |-> {}]
  /\ routed = {}
  /\ replies = 0
  /\ pc = [c \in Socks |-> "idle"]
  /\ bound = [c \in Conns |-> FALSE]
  /\ rawSent = 0
  /\ sockets = {}
  /\ greenLight = FALSE
  /\ hubPc = "constructed"
  /\ db = EmptyObject
  /\ file = Stringify(db)
  /\ lastSet = [n \in SettingsSenders |-> Undefined]
  /\ timers = {}
  /\ settled = {}
  /\ invoked = [c \in Conns |-> <<>>]
  /\ nodes = <<>>
  /\ thrown = ""
  /\ argsIn \in CheckInputs
  /\ returned = <<>>
  /\ errors = <<>>

SpecCheck == InitCheck /\ [][CheckArgs]_vars

\* C31: on a packet with args, checkArgs returns true exactly when every
\* name of the list is a key of packet.args; when a name is missing it
\* returns false and hands one error to parent.returnError, the one that
\* names the first missing name.
CheckArgsTellsMissing ==
  [][ (CheckArgs /\ "args" \in DOMAIN argsIn.packet) =>
        LET missing == Missing(argsIn.argsNames, argsIn.packet.args)
        IN /\ returned' = << missing = <<>> >>
           /\ errors' = IF missing = <<>> THEN <<>>
                        ELSE << <<Head(missing), "argument not included in packet!">> >> ]_vars

(***************************************************************************)
(* Refused settings requests (index.js getSettings / setSettings)          *)
(***************************************************************************)
\* the request at the head of connection c's queue comes from a sender
\* without a package
NoPackageEntry(c) ==
  FindValue(db, <<"packages">> \o Handling(c).sender) = Undefined

UnknownKeyIgnored ==
  [][ \A c \in Socks :
        ( /\ toHub[c] # <<>>
          /\ toHub'[c] = Tail(toHub[c])
          /\ Head(toHub[c]).key \notin HubKeys ) =>
          /\ toNode' = toNode
          /\ sockets' = sockets
          /\ greenLight' = greenLight
          /\ db' = db ]_vars

\* the hub has taken the samcore.returnError message of a handler, and
\* every message that was sent has been read
UnknownKeyDropped ==
  /\ replies >= 1
  /\ \A c \in Socks : toHub[c] = <<>> /\ toNode[c] = <<>>
  /\ \A c \in Conns : serving[c] = {}

(***************************************************************************)
(* The end of a connection (Client.js disconnect handler, Server.js        *)
(* socket.disconnected handler)                                            *)
(***************************************************************************)
\* C34: a node whose connection to the hub has ended stays shut down: it
\* does not connect again and writes no further message, and once the hub
\* has handled the end of the connection its registry holds no name for it.
ShutDownForGood ==
  [][ \A c \in Socks :
        pc[c] = "closed" =>
          /\ pc'[c] = "closed"
          /\ Len(toHub'[c]) <= Len(toHub[c])
          /\ ~\E s \in sockets' : s[2] = c ]_vars

(***************************************************************************)
(* setSettings requests of different nodes                                 *)
(***************************************************************************)
\* C35: whatever the order in which the setSettings requests of different
\* nodes are handled, the settings of every node, in the document and in
\* the file, are the ones of its own last setSettings that succeeded.
NoSettingsUpdateLost ==
  \A S \in SettingsSenders :
    lastSet[S] # Undefined =>
      /\ FindValue(db, SettingsPath(S)) = lastSet[S]
      /\ FindValue(file, SettingsPath(S)) = lastSet[S]

(***************************************************************************)
(* Hooks (Client.addHook)                                                  *)
(***************************************************************************)
\* C36: the hook a node registered on the key receiver.apiCall of another
\* node is invoked with every request the hub routed to that key, once the
\* request has reached the node.
HookSeesRoutedRequests ==
  \A c \in Conns : \A m \in seen[c] :
    (m.key \in HookKeys[c] /\ m.packet \in routed) =>
      \E k \in 1..Len(invoked[c]) : invoked[c][k] = m.packet

(***************************************************************************)
(* The greenLight flag (Server constructor, index.js onConnect)            *)
(***************************************************************************)
\* C37: the greenLight flag is false when the hub is constructed, and once
\* it is true no step of the hub, the end of a connection and a second
\* registration included, makes it false again.
GreenLightStaysTrue ==
  /\ greenLight = FALSE
  /\ [][greenLight => greenLight']_vars

\* the flag is true after a registered process has closed its connection and
\* another has registered
GreenAfterDisconnect ==
  /\ greenLight
  /\ \E x \in Raws : pc[x] = "closed" /\ HasRegistered(x)
  /\ \E x \in Raws : pc[x] = "running" /\ HasRegistered(x)

\* C38: whenever the greenLight flag is true, the hub's handlers are bound
\* and every enabled persistent package has been spawned, so that no
\* process reads a true flag before that.
GreenLightAfterSpawn ==
  greenLight =>
    /\ hubPc # "constructed"
    /\ { nodes[i] : i \in 1..Len(nodes) } = Spawnable(db)

\* a process has read a true flag from a hub that spawned two packages
GreenSeenAfterSpawn ==
  /\ Len(nodes) = 2
  /\ \E m \in seen["x1"] : "result" \in DOMAIN m.packet /\ m.packet.result = TRUE

(***************************************************************************)
(* Handlers over the life of a node (Client.run, Client.addApiCall)        *)
(***************************************************************************)
\* C39: a handler registered with addApiCall is bound once in the life of a
\* node, so that a request which reached the node on nodeName.apiCall has
\* been taken by its handler exactly once.
HandlerRunsOncePerRequest ==
  \A c \in Conns : \A m \in seen[c] :
    m.key \in ApiKeys(c) =>
      Cardinality({ k \in 1..Len(invoked[c]) : invoked[c][k] = m.packet }) = 1

(***************************************************************************)
(* EditJsonFile.empty                                                      *)
(***************************************************************************)
\* EditJsonFile.empty(): write("{}"); this.data is not touched
StoreEmpty ==
  /\ hubPc = "constructed"
  /\ file' = EmptyObject
  /\ thrown' = ""
  /\ UNCHANGED <<routeVars, runVars, sockets, greenLight, hubPc, db, lastSet>>
  /\ UNCHANGED <<promiseVars, invoked, nodes, checkVars>>

NextEmpty ==
  \/ NextStore
  \/ StoreEmpty

SpecEmpty == InitStore /\ [][NextEmpty]_vars

\* C40: after empty() the document get() returns is empty, as the file is;
\* and a set(p, v) on a store whose file is empty writes a file that holds
\* p and nothing else.
EmptyLeavesStoreConsistent ==
  [][ /\ StoreEmpty => (Get(db', <<>>) = EmptyObject /\ file' = EmptyObject)
      /\ \A input \in PathInputs, v \in StoreValues :
           (StoreSet(input, v) /\ file = EmptyObject) =>
             file' = Stringify(At(Join(input), v)) ]_vars

====
